---- MODULE Spec2Model ----
(***************************************************************************)
(* Statement lifecycle, value marshaling and connection handling of the    *)
(* sqlago driver (package sqlany): conn.Prepare, stmt.execute/Exec/Query,  *)
(* stmt.bindParam, stmt.Close, stmt.NumInput, rows.Next/Columns/Close,     *)
(* drv.Open, conn.queryRow/Begin/Close, tx.Commit/Rollback.  The native    *)
(* client library is the environment: its answers are inputs of the        *)
(* actions and its per-handle cursor state is kept in nat and nErr.        *)
(***************************************************************************)
EXTENDS Integers, Sequences, FiniteSets, TLC

\* ------------------------------------------------------------------ bounds
MaxStrLen == 2      \* longest string argument, in bytes
MaxBlobLen == 2     \* longest []byte argument
MaxParams == 2      \* most bind parameters of a prepared statement
MaxCols == 2        \* most columns of a prepared statement
MaxRows == 1        \* most rows of a result set
MaxExecs == 2       \* most executions of the statement in one behaviour
MaxCloses == 2      \* most native frees of one statement handle followed
MaxConnCloses == 2  \* most calls of conn.Close in one behaviour
MaxTx == 2          \* most transactions begun on the connection

\* ------------------------------------------------------- program constants
SentinelCode == 100 \* "result set exhausted" code tested by rows.Next

\* --------------------------------------------------------------- helpers
RECURSIVE SeqsUpTo(_, _)
SeqsUpTo(S, n) ==
    IF n = 0 THEN {<<>>}
    ELSE LET shorter == SeqsUpTo(S, n - 1)
         IN  shorter \cup {Append(s, x) : s \in {t \in shorter : Len(t) = n - 1}, x \in S}

Take(s, n) == SubSeq(s, 1, n)

\* ------------------------------------------------- Go values (driver.Value)
\* A value is [kind, v]: kind is its reflect.Kind (with "bytes" for []byte,
\* "intslice" for a slice of another element type and "nil" for the nil
\* interface), v its bytes: integers are the little-endian bytes of v.Int()
\* (an int64), floats those of v.Float() (a float64), a bool is <<1>> or <<0>>.
Val(k, bytes) == [kind |-> k, v |-> bytes]

LE_1 == <<1, 0, 0, 0, 0, 0, 0, 0>>
LE_m1 == <<255, 255, 255, 255, 255, 255, 255, 255>>
LE_300 == <<44, 1, 0, 0, 0, 0, 0, 0>>
LE_70000 == <<112, 17, 1, 0, 0, 0, 0, 0>>
LE_2p31 == <<0, 0, 0, 128, 0, 0, 0, 0>>
LE_2p40 == <<0, 0, 0, 0, 0, 1, 0, 0>>
F64_1_5 == <<0, 0, 0, 0, 0, 0, 248, 63>>

StrBytes == {97, 98}
BlobBytes == {0, 255}

Strings == {Val("string", s) : s \in SeqsUpTo(StrBytes, MaxStrLen)}
Blobs == {Val("bytes", s) : s \in SeqsUpTo(BlobBytes, MaxBlobLen)}
Bools == {Val("bool", <<1>>), Val("bool", <<0>>)}
Ints(ws) ==
    {Val("int8", LE_1), Val("int8", LE_m1),
     Val("int16", LE_300), Val("int16", LE_m1),
     Val("int32", LE_70000), Val("int32", LE_m1),
     Val("int64", LE_2p40), Val("int64", LE_m1),
     Val("int", LE_1), Val("int", LE_m1)}
    \cup (IF ws = 8 THEN {Val("int", LE_2p31), Val("int", LE_2p40)} ELSE {})
Floats == {Val("float32", F64_1_5), Val("float64", F64_1_5)}
NilValue == Val("nil", <<>>)
Others ==
    {Val("complex64", <<>>), Val("complex128", <<>>), Val("intslice", <<>>),
     Val("uint", LE_1), Val("uint64", LE_1), Val("struct", <<>>)}

ParamValues(ws) ==
    Strings \cup Blobs \cup Bools \cup Ints(ws) \cup Floats \cup {NilValue} \cup Others

\* ----------------------------------------------------------- error values
NilErr == [kind |-> "nil", code |-> 0]
ErrNotSupported == [kind |-> "ErrNotSupported", code |-> 0]
ArgCountErr == [kind |-> "ArgCount", code |-> 0]
EOF == [kind |-> "EOF", code |-> 0]
Panic == [kind |-> "panic", code |-> 0]
SqlaError(c) == [kind |-> "sqlaError", code |-> c]

\* Codes a failing native call may leave on the connection (0: none recorded).
FaultCodes == {0, -85}
\* The code left by a failing call of Prepare, bind and execute in the model.
CallFaultCodes == {-85}

\* sqlaConn.newError: the classified error of the connection's error slot.
newError(code) == IF code = 0 THEN NilErr ELSE SqlaError(code)

\* ------------------------------------------------------ native call records
NilBuf == <<-1>>
NoBP == [datatype |-> "none", buffer |-> NilBuf, buffersize |-> -1,
         length |-> -1, isnull |-> FALSE]
Call(fn, h, idx, bp) == [fn |-> fn, h |-> h, idx |-> idx, bp |-> bp]
Conn == "cn"

NativeTypes ==
    {"A_UVAL8", "A_VAL8", "A_VAL16", "A_VAL32", "A_VAL64", "A_DOUBLE",
     "A_STRING", "A_BINARY"}

\* ----------------------------------------------------------- stmt.bindParam
\* reflect.TypeOf(param).Size()
TypeSize(k, ws) ==
    CASE k \in {"bool", "int8"} -> 1
      [] k = "int16" -> 2
      [] k \in {"int32", "float32"} -> 4
      [] k \in {"int64", "uint64", "float64", "complex64"} -> 8
      [] k = "complex128" -> 16
      [] k \in {"int", "uint"} -> ws
      [] k = "string" -> 2 * ws
      [] k \in {"bytes", "intslice"} -> 3 * ws
      [] OTHER -> ws

\* syscall.StringBytePtr: the bytes of s followed by a terminating NUL
StringBytePtr(s) == s \o <<0>>

\* the switch on v.Kind(): [out, bp] with out "bind" (go on to the native
\* bindParam), "unsupported" (return ErrNotSupported) or "panic"
EncodeString_NoTerminator(bp, p) ==
    [out |-> "bind",
     bp |-> [bp EXCEPT !.datatype = "A_STRING", !.buffer = p.v,
                       !.buffersize = Len(p.v), !.length = Len(p.v)]]

EncodeString(bp, p) ==
    [out |-> "bind",
     bp |-> [bp EXCEPT !.datatype = "A_STRING", !.buffer = StringBytePtr(p.v),
                       !.buffersize = Len(p.v) + 1, !.length = Len(p.v)]]

EncodeBytes(bp, p) ==
    IF Len(p.v) = 0
    THEN [out |-> "panic", bp |-> [bp EXCEPT !.datatype = "A_BINARY"]]
    ELSE [out |-> "bind",
          bp |-> [bp EXCEPT !.datatype = "A_BINARY", !.buffer = p.v,
                            !.buffersize = Len(p.v), !.length = Len(p.v)]]

Encode(bp, p) ==
    CASE p.kind = "bool" ->
           [out |-> "bind", bp |-> [bp EXCEPT !.buffer = p.v, !.datatype = "A_UVAL8"]]
      [] p.kind = "int64" ->
           [out |-> "bind", bp |-> [bp EXCEPT !.buffer = p.v, !.datatype = "A_VAL64"]]
      [] p.kind \in {"int32", "int"} ->
           [out |-> "bind", bp |-> [bp EXCEPT !.buffer = Take(p.v, 4), !.datatype = "A_VAL32"]]
      [] p.kind = "int16" ->
           [out |-> "bind", bp |-> [bp EXCEPT !.buffer = Take(p.v, 2), !.datatype = "A_VAL16"]]
      [] p.kind = "int8" ->
           [out |-> "bind", bp |-> [bp EXCEPT !.buffer = Take(p.v, 1), !.datatype = "A_VAL8"]]
      [] p.kind \in {"float32", "float64"} ->
           [out |-> "bind", bp |-> [bp EXCEPT !.buffer = p.v, !.datatype = "A_DOUBLE"]]
      [] p.kind \in {"complex64", "complex128"} ->
           [out |-> "bind", bp |-> bp]
      [] p.kind = "string" -> EncodeString(bp, p)
      [] p.kind = "bytes" -> EncodeBytes(bp, p)
      [] p.kind = "intslice" ->
           [out |-> "bind", bp |-> bp]
      [] OTHER ->
           [out |-> "unsupported", bp |-> bp]

\* ans: the native library's answers during this bind:
\*   descOk, bindOk, decl (declared type of the parameter), code (the error
\*   code a failing call leaves on the connection)
\* Result: [err, calls, code] with code the connection's error slot afterwards.
bindParam(st, index, param, ans, ws, code0) ==
    LET describe == Call("describeBindParam", st, index, NoBP)
        lookup == Call("newError", Conn, -1, NoBP)
    IN
    IF ~ans.descOk
    THEN [err |-> newError(ans.code), calls |-> <<describe, lookup>>, code |-> ans.code]
    ELSE IF param.kind = "nil"
    THEN \* reflect.TypeOf(nil) is nil: calling Size() on it panics
         [err |-> Panic, calls |-> <<describe>>, code |-> code0]
    ELSE
    LET datasize == TypeSize(param.kind, ws)
        bp0 == [datatype |-> ans.decl, buffer |-> NilBuf, buffersize |-> datasize,
                length |-> datasize, isnull |-> FALSE]
        enc == Encode(bp0, param)
        bind == Call("bindParam", st, index, enc.bp)
    IN
    CASE enc.out = "panic" ->
           [err |-> Panic, calls |-> <<describe>>, code |-> code0]
      [] enc.out = "unsupported" ->
           [err |-> ErrNotSupported, calls |-> <<describe>>, code |-> code0]
      [] OTHER ->
           IF ~ans.bindOk
           THEN [err |-> newError(ans.code), calls |-> <<describe, bind, lookup>>,
                 code |-> ans.code]
           ELSE [err |-> NilErr, calls |-> <<describe, bind>>, code |-> code0]

\* ------------------------------------------------------------------ state
Stmts == {"s1", "s2"}
\* the statement of the specifications that follow a single one
OneStmt == {"s1"}

VARIABLES
    wordSize,   \* bytes of a Go int on the platform of the build (4 or 8)
    stmt,       \* stmt[s]: the stmt object: [state, numparams, cols, closed]
    nat,        \* nat[s]: the native statement handle: what numParams() and
                \*   numCols() answer, the cursor (open, pos, rows), free calls
    nErr,       \* the error code held by the native connection
    hist,       \* hist[s]: bookkeeping of the calls made so far on s
    op,         \* the last operation and what it returned
    calls,      \* the native calls the last operation made, in order
    probe,      \* the argument under test (codec specification only)
    conn,       \* the conn object and its native connection handle
    dest,       \* dest[s]: the slice the caller hands to Next of the rows of s
    sched       \* where each caller stands inside a Next that runs in two steps
                \*   (concurrency specification only)

vars == <<wordSize, stmt, nat, nErr, hist, op, calls, probe, conn, dest, sched>>

NoStmt == [state |-> "none", numparams |-> 0, cols |-> <<>>, closed |-> FALSE]
NoHandle == [numParams |-> 0, numCols |-> 0, open |-> FALSE, pos |-> 0,
             rows |-> 0, freed |-> 0]
NoHist == [execs |-> 0, nexts |-> 0, clean |-> FALSE, hasRows |-> FALSE,
           failed |-> FALSE]
\* cols: what rows.Columns returned; n: what stmt.NumInput returned; ret: the
\* answer of the native primitive the operation is named after; opts: the
\* option string drv.Open was given; out: what its queryRow stored
\* fetched: the native values of the row Next fetched; before: dest as Next
\* found it
NoOp == [name |-> "none", st |-> "s1", nargs |-> -1, err |-> NilErr,
         binderrs |-> <<>>, row |-> 0, fault |-> FALSE, cols |-> <<>>, n |-> 0,
         ret |-> TRUE, opts |-> <<>>, out |-> <<>>, fetched |-> <<>>,
         before |-> <<>>]

\* serial: the caller serializes the operations on the connection; at[s]:
\* "idle", or inside a Next on s: "lookup" between a failed fetchNext and
\* the newError, "columns" between a successful fetchNext and the column reads;
\* produced[s]: the code that fetchNext left
NoSched == [serial |-> TRUE, at |-> [s \in Stmts |-> "idle"],
            produced |-> [s \in Stmts |-> 0]]

\* conn: state "none" until drv.Open hands out the object; connected and
\* charset are its fields; linked: the native handle holds a server
\* connection; freed: calls of the native free on the handle; txs: tx objects
\* handed out by Begin
NoConn == [state |-> "none", connected |-> FALSE, charset |-> "", linked |-> FALSE,
           freed |-> 0, txs |-> 0]
\* the conn a successful drv.Open returns
OpenConn == [state |-> "open", connected |-> TRUE, charset |-> "utf-8", linked |-> TRUE,
             freed |-> 0, txs |-> 0]

\* name of the column at position i (0-based) as getColumnInfo reports it
ColName(i) == 200 + i

\* The lifecycle specification follows a 64-bit build (its arguments bind the
\* same on both); the codec specification InitBind covers both widths.
Init ==
    /\ wordSize = 8
    /\ stmt = [s \in Stmts |-> NoStmt]
    /\ nat = [s \in Stmts |-> NoHandle]
    /\ nErr = 0
    /\ hist = [s \in Stmts |-> NoHist]
    /\ op = NoOp
    /\ calls = <<>>
    /\ probe = NilValue
    /\ conn = OpenConn
    /\ dest = [s \in Stmts |-> <<>>]
    /\ sched = NoSched

\* ------------------------------------------------------------- conn.Prepare
\* failAt: the column position (1-based) whose getColumnInfo fails, 0 if none
RECURSIVE ColumnInfoCalls_OneMore(_, _, _)
ColumnInfoCalls_OneMore(s, i, n) ==
    IF i > n THEN <<>>
    ELSE <<Call("getColumnInfo", s, i, NoBP)>> \o ColumnInfoCalls_OneMore(s, i + 1, n)

RECURSIVE ColumnInfoCalls(_, _, _)
ColumnInfoCalls(s, i, n) ==
    IF i >= n THEN <<>>
    ELSE <<Call("getColumnInfo", s, i, NoBP)>> \o ColumnInfoCalls(s, i + 1, n)

\* the stmt object and the native handle a successful Prepare makes for a
\* statement of np parameters and nc columns, and the native calls it makes
preparedStmt(np, nc) ==
    [state |-> "prepared", numparams |-> np,
     cols |-> [i \in 1..nc |-> ColName(i - 1)], closed |-> FALSE]

preparedHandle(np, nc) == [NoHandle EXCEPT !.numParams = np, !.numCols = nc]

prepareCalls(s, nc) ==
    <<Call("prepare", Conn, -1, NoBP),
      Call("numParams", s, -1, NoBP), Call("numCols", s, -1, NoBP)>>
    \o ColumnInfoCalls(s, 0, nc)

Prepare(s) ==
    /\ conn.state = "open"
    /\ stmt[s].state = "none"
    /\ \E prepOk \in BOOLEAN, np \in 0..MaxParams, nc \in 0..MaxCols,
          code \in CallFaultCodes :
       \E failAt \in 0..nc :
         LET prep == <<Call("prepare", Conn, -1, NoBP)>>
             counts == <<Call("numParams", s, -1, NoBP), Call("numCols", s, -1, NoBP)>>
             lookup == <<Call("newError", Conn, -1, NoBP)>>
         IN
         IF ~prepOk
         THEN /\ op' = [NoOp EXCEPT !.name = "Prepare", !.st = s, !.err = newError(code)]
              /\ calls' = prep
              /\ nErr' = code
              /\ UNCHANGED <<stmt, nat, hist>>
         ELSE IF failAt > 0
         THEN /\ op' = [NoOp EXCEPT !.name = "Prepare", !.st = s, !.err = newError(code)]
              /\ calls' = prep \o counts \o ColumnInfoCalls(s, 0, failAt) \o lookup
              /\ nErr' = code
              /\ UNCHANGED <<stmt, nat, hist>>
         ELSE /\ op' = [NoOp EXCEPT !.name = "Prepare", !.st = s]
              /\ calls' = prepareCalls(s, nc)
              /\ stmt' = [stmt EXCEPT ![s] = preparedStmt(np, nc)]
              /\ nat' = [nat EXCEPT ![s] = preparedHandle(np, nc)]
              /\ UNCHANGED <<nErr, hist>>
    /\ UNCHANGED <<wordSize, probe, conn, dest, sched>>

\* --------------------------------------------------------------- stmt.Close
\* "if st.closed { log.Print(...); return nil }"
alreadyClosed_Never(st) == FALSE

alreadyClosed(st) == st.closed

\* "if st.st.numCols() > 0 { st.st.reset() }" of Close
closeResets_Never(ncols) == FALSE

closeResets(ncols) == ncols > 0

stmtClose(s) ==
    /\ stmt[s].state # "none"
    /\ nat[s].freed < MaxCloses
    /\ IF alreadyClosed(stmt[s])
       THEN /\ calls' = <<>>
            /\ op' = [NoOp EXCEPT !.name = "Close", !.st = s, !.fault = nat[s].freed > 0]
            /\ UNCHANGED <<stmt, nat>>
       ELSE LET reset == IF closeResets(nat[s].numCols)
                         THEN <<Call("reset", s, -1, NoBP)>> ELSE <<>>
            IN  /\ calls' = <<Call("numCols", s, -1, NoBP)>> \o reset
                            \o <<Call("free", s, -1, NoBP)>>
                /\ nat' = [nat EXCEPT ![s].freed = @ + 1, ![s].open = FALSE, ![s].pos = 0]
                /\ stmt' = [stmt EXCEPT ![s].closed = TRUE]
                /\ op' = [NoOp EXCEPT !.name = "Close", !.st = s, !.fault = nat[s].freed > 0]
    /\ hist' = [hist EXCEPT ![s].clean = FALSE]
    /\ UNCHANGED <<wordSize, nErr, probe, conn, dest, sched>>

\* ------------------------------------------------------------- stmt.execute
\* Answers of the native library to one bind: which of describeBindParam and
\* bindParam succeed, and the declared type describeBindParam fills in.
BindAnswers(code) ==
    {[descOk |-> d, bindOk |-> b, decl |-> "A_VAL32", code |-> code] :
        d \in BOOLEAN, b \in BOOLEAN}

AllOk(code) == [descOk |-> TRUE, bindOk |-> TRUE, decl |-> "A_VAL32", code |-> code]

\* The answers to the n binds of one execute: at most one native call fails.
AnswerSeqs(n, code) ==
    {[i \in 1..n |-> AllOk(code)]}
    \cup {[i \in 1..n |-> IF i = k THEN [AllOk(code) EXCEPT !.descOk = FALSE]
                                   ELSE AllOk(code)] : k \in 1..n}
    \cup {[i \in 1..n |-> IF i = k THEN [AllOk(code) EXCEPT !.bindOk = FALSE]
                                   ELSE AllOk(code)] : k \in 1..n}

\* the loop "for i := 0; i < st.numparams; i++ { st.bindParam(uint(i), args[i]) }":
\* the error bindParam returns is dropped, a panic unwinds the loop
RECURSIVE bindLoop(_, _, _, _, _, _, _)
bindLoop(s, args, answers, ws, i, n, acc) ==
    IF i >= n \/ acc.panicked THEN acc
    ELSE LET r == bindParam(s, i, args[i + 1], answers[i + 1], ws, acc.code)
         IN  bindLoop(s, args, answers, ws, i + 1, n,
                      [calls |-> acc.calls \o r.calls,
                       errs |-> Append(acc.errs, r.err.kind),
                       code |-> r.code,
                       panicked |-> r.err = Panic])

\* "if st.st.numCols() > 0 { st.st.reset() }"
needsReset_Never(ncols) == FALSE

needsReset(ncols) == ncols > 0

\* "if args != nil { if len(args) != st.numparams { return fmt.Errorf(...) } }"
argCountMismatch_TooFewOnly(args, numparams) ==
    ~args.isnil /\ Len(args.list) < numparams

argCountMismatch(args, numparams) ==
    ~args.isnil /\ Len(args.list) # numparams

\* args: [isnil, list].  Result: [err, calls, binderrs, code, reset, executed]
\* (code: the connection's error code afterwards; reset, executed: whether the
\* native reset was called and whether the native execute succeeded)
execute(s, st, ncols, args, answers, execOk, code, ws, code0) ==
    LET reset == needsReset(ncols)
        acc0 == [calls |-> <<Call("numCols", s, -1, NoBP)>>
                           \o (IF reset THEN <<Call("reset", s, -1, NoBP)>> ELSE <<>>),
                 errs |-> <<>>, code |-> code0, panicked |-> FALSE]
        run == Call("execute", s, -1, NoBP)
        lookup == Call("newError", Conn, -1, NoBP)
    IN
    IF argCountMismatch(args, st.numparams)
    THEN [err |-> ArgCountErr, calls |-> acc0.calls, binderrs |-> <<>>,
          code |-> code0, reset |-> reset, executed |-> FALSE]
    ELSE
    LET acc == IF args.isnil THEN acc0
               ELSE bindLoop(s, args.list, answers, ws, 0, st.numparams, acc0)
    IN
    IF acc.panicked
    THEN [err |-> Panic, calls |-> acc.calls, binderrs |-> acc.errs,
          code |-> acc.code, reset |-> reset, executed |-> FALSE]
    ELSE IF ~execOk
    THEN [err |-> newError(code), calls |-> acc.calls \o <<run, lookup>>,
          binderrs |-> acc.errs, code |-> code, reset |-> reset, executed |-> FALSE]
    ELSE [err |-> NilErr, calls |-> Append(acc.calls, run), binderrs |-> acc.errs,
          code |-> acc.code, reset |-> reset, executed |-> TRUE]

\* The native handle after the calls of one execute: reset closes the cursor;
\* a successful execute of a statement with columns opens a result set of
\* nrows rows, at its first row unless a cursor was still open on the handle,
\* whose fetch position then stays.
HandleAfterExecute(h, r, nrows) ==
    LET h1 == IF r.reset THEN [h EXCEPT !.open = FALSE, !.pos = 0] ELSE h
    IN  IF r.executed /\ h.numCols > 0
        THEN [h1 EXCEPT !.open = TRUE, !.rows = nrows]
        ELSE h1

\* the argument lists of the lifecycle specification: no list (args == nil)
\* and the lists of up to MaxParams values of which at most one is nil
ArgValues ==
    {Val("int64", LE_1), NilValue}
ArgLists ==
    {[isnil |-> TRUE, list |-> <<>>]}
    \cup {[isnil |-> FALSE, list |-> l] :
            l \in {m \in SeqsUpTo(ArgValues, MaxParams) :
                      Cardinality({i \in DOMAIN m : m[i] = NilValue}) <= 1}}

\* the stmt object after execute returned err: execute assigns none of its fields
executedStmt_ClosedOnError(st, err) ==
    IF err # NilErr THEN [st EXCEPT !.closed = TRUE] ELSE st

executedStmt(st, err) == st

\* the nil driver.Value
DriverNil == [kind |-> "nil", v |-> ""]

\* what Exec and Query share: the call of st.execute and its effect
Executed(s, name, r, args, nrows) ==
    /\ nat' = [nat EXCEPT ![s] = HandleAfterExecute(@, r, nrows)]
    /\ nErr' = r.code
    /\ calls' = r.calls \o (IF name = "Exec" /\ r.err = NilErr
                            THEN <<Call("affectedRows", s, -1, NoBP)>> ELSE <<>>)
    /\ op' = [NoOp EXCEPT !.name = name, !.st = s, !.err = r.err,
                          !.nargs = IF args.isnil THEN -1 ELSE Len(args.list),
                          !.binderrs = r.binderrs,
                          !.fault = nat[s].freed > 0]
    /\ hist' = [hist EXCEPT ![s].execs = @ + 1,
                            ![s].nexts = 0,
                            ![s].clean = r.executed /\ nat[s].numCols > 0
                                         /\ nat[s].freed = 0,
                            ![s].hasRows = @ \/ (name = "Query" /\ r.err = NilErr),
                            ![s].failed = @ \/ r.err # NilErr]
    /\ stmt' = [stmt EXCEPT ![s] = executedStmt(@, r.err)]
    \* the caller of a successful Query makes the dest of the new rows:
    \* one nil slot per column
    /\ dest' = IF name = "Query" /\ r.err = NilErr
               THEN [dest EXCEPT ![s] = [i \in 1..Len(stmt[s].cols) |-> DriverNil]]
               ELSE dest
    /\ UNCHANGED <<wordSize, probe, conn, sched>>

\* The inputs of one execute: the argument list, the native answers to the
\* binds it makes, whether the native execute succeeds, the rows of the result.
\* Lists: the argument lists followed; maxRows: the largest result followed;
\* maxExecs: the executes followed on one statement.
RunWith(s, name, Lists, maxRows, maxExecs) ==
    /\ stmt[s].state = "prepared"
    /\ hist[s].execs < maxExecs
    /\ \E args \in Lists, code \in CallFaultCodes :
       \E answers \in AnswerSeqs(IF argCountMismatch(args, stmt[s].numparams) \/ args.isnil
                                 THEN 0 ELSE stmt[s].numparams, code) :
          \* the native execute answers only when the call gets that far
          \E r1 \in {execute(s, stmt[s], nat[s].numCols, args, answers, TRUE, code,
                              wordSize, nErr)} :
          \E r \in {r1} \cup (IF r1.executed
                               THEN {execute(s, stmt[s], nat[s].numCols, args, answers,
                                             FALSE, code, wordSize, nErr)}
                               ELSE {}) :
          \E nrows \in (IF r.executed /\ nat[s].numCols > 0 THEN 0..maxRows ELSE {0}) :
             Executed(s, name, r, args, nrows)

Run(s, name) == RunWith(s, name, ArgLists, MaxRows, MaxExecs)

Query(s) == Run(s, "Query")

Exec(s) == Run(s, "Exec")

\* ---------------------------------------------------------------- rows.Next
\* Answer of the native fetchNext on handle h: [ok, code, clean].  With a
\* result set open and no fault it is true while rows remain and then false
\* with the sentinel code; fault names an injected failure of this call.
FetchAnswer(h, fault, code) ==
    IF fault \/ h.freed > 0 \/ ~h.open
    THEN [ok |-> FALSE, code |-> code, clean |-> FALSE]
    ELSE IF h.pos < h.rows
    THEN [ok |-> TRUE, code |-> code, clean |-> TRUE]
    ELSE [ok |-> FALSE, code |-> SentinelCode, clean |-> TRUE]

RECURSIVE ColumnCalls(_, _, _)
ColumnCalls(s, i, n) ==
    IF i >= n THEN <<>>
    ELSE <<Call("getColumn", s, i, NoBP)>> \o ColumnCalls(s, i + 1, n)

\* "if code != 100 { return }" inside "if err = newError(); err != nil"
isFault_AnyCode(err) == err # NilErr

isFault_Never(err) == FALSE

isFault(err) == err # NilErr /\ err.code # SentinelCode

\* What Next returns when fetchNext returned false, slot being the code that
\* newError finds on the connection: the error unless it is nil or the
\* sentinel, else io.EOF
nextFetchError_AlwaysEOF(slot) == EOF

nextFetchError(slot) ==
    LET err == newError(slot)
    IN  IF isFault(err) THEN err ELSE EOF

\* A fetched column as getColumn leaves it in the dataValue: [kind, v] with
\* kind "null" for a NULL column; dataValue.Value() is the driver.Value of it.
NullColumn == [kind |-> "null", v |-> ""]

Value(d) == IF d.kind = "null" THEN DriverNil ELSE [kind |-> d.kind, v |-> d.v]

\* "dest[i] = data.Value()"
assignDest_KeepOnNil(d, i, value) ==
    IF value = DriverNil THEN d ELSE [d EXCEPT ![i] = value]

assignDest(d, i, value) == [d EXCEPT ![i] = value]

\* the loop over the columns i..n-1 (0-based) of the fetched row vals
RECURSIVE readRow(_, _, _, _)
readRow(i, n, vals, d) ==
    IF i >= n THEN d
    ELSE readRow(i + 1, n, vals, assignDest(d, i + 1, Value(vals[i + 1])))

\* "&rows{st: st}": the statement that the rows made by Query on s refer to
rowsStmt_First(s) == "s1"

rowsStmt(s) == s

\* rows.Next on the rows of s.  Rows: the rows the native library may hold at
\* the cursor (one native value per column); maxNexts: the calls followed.
\* failAt: the column position (1-based) whose getColumn fails, 0 if none
rowsNext(s, Rows, maxNexts) ==
    /\ hist[s].hasRows
    /\ hist[s].nexts < maxNexts
    /\ \E fault \in BOOLEAN, code \in FaultCodes \cup {SentinelCode},
          failAt \in 0..nat[rowsStmt(s)].numCols, vals \in Rows :
         LET t == rowsStmt(s)
             h == nat[t]
             f == FetchAnswer(h, fault, code)
             lookup == <<Call("newError", Conn, -1, NoBP)>>
             fetch == <<Call("fetchNext", t, -1, NoBP)>>
             this == [NoOp EXCEPT !.name = "Next", !.st = s, !.before = dest[s]]
         IN
         /\ IF ~f.ok
            THEN /\ op' = [this EXCEPT !.err = nextFetchError(f.code),
                                      !.fault = ~f.clean]
                 /\ calls' = fetch \o lookup
                 /\ nErr' = f.code
                 /\ nat' = nat
                 /\ dest' = dest
                 /\ hist' = [hist EXCEPT ![s].nexts = @ + 1,
                                         ![s].clean = @ /\ f.clean]
            ELSE /\ nat' = [nat EXCEPT ![t].pos = @ + 1]
                 /\ IF failAt > 0
                    THEN /\ op' = [this EXCEPT !.err = newError(code), !.fault = TRUE,
                                               !.row = h.pos + 1, !.fetched = vals]
                         /\ calls' = fetch \o <<Call("numCols", t, -1, NoBP)>>
                                     \o ColumnCalls(t, 0, failAt) \o lookup
                         /\ nErr' = code
                         /\ dest' = [dest EXCEPT ![s] = readRow(0, failAt - 1, vals, @)]
                         /\ hist' = [hist EXCEPT ![s].nexts = @ + 1, ![s].clean = FALSE]
                    ELSE /\ op' = [this EXCEPT !.row = h.pos + 1, !.fetched = vals]
                         /\ calls' = fetch \o <<Call("numCols", t, -1, NoBP)>>
                                     \o ColumnCalls(t, 0, h.numCols)
                         /\ nErr' = nErr
                         /\ dest' = [dest EXCEPT ![s] = readRow(0, h.numCols, vals, @)]
                         /\ hist' = [hist EXCEPT ![s].nexts = @ + 1]
    /\ UNCHANGED <<wordSize, stmt, probe, conn, sched>>

\* the row of n NULL columns
NullRow(n) == [i \in 1..n |-> NullColumn]

\* Next in the specifications that do not follow the column values
Next(s) == rowsNext(s, {NullRow(nat[s].numCols)}, MaxRows + 1)

\* ------------------------------------------- rows.Columns, rows.Close
\* "return rs.st.cols"
rowsColumns_Nil(st) == <<>>

rowsColumns(st) == st.cols

Columns(s) ==
    /\ hist[s].hasRows
    /\ op' = [NoOp EXCEPT !.name = "Columns", !.st = s, !.cols = rowsColumns(stmt[s])]
    /\ calls' = <<>>
    /\ UNCHANGED <<wordSize, stmt, nat, nErr, hist, probe, conn, dest, sched>>

\* what the statement is after rows.Close, whose body is "return nil"
rowsClosed_ClosesStmt(st) == [st EXCEPT !.closed = TRUE]

rowsClosed(st) == st

rowsClose(s) ==
    /\ hist[s].hasRows
    /\ op' = [NoOp EXCEPT !.name = "rowsClose", !.st = s]
    /\ calls' = <<>>
    /\ stmt' = [stmt EXCEPT ![s] = rowsClosed(@)]
    /\ UNCHANGED <<wordSize, nat, nErr, hist, probe, conn, dest, sched>>

\* ------------------------------------------------------------ stmt.NumInput
\* "return st.st.numParams()": asks the native handle on every call
NumInput(s) ==
    /\ stmt[s].state = "prepared"
    /\ op' = [NoOp EXCEPT !.name = "NumInput", !.st = s, !.n = nat[s].numParams,
                          !.fault = nat[s].freed > 0]
    /\ calls' = <<Call("numParams", s, -1, NoBP)>>
    /\ UNCHANGED <<wordSize, stmt, nat, nErr, hist, probe, conn, dest, sched>>

\* ------------------------------------------------------------ specification
Next_ ==
    \E s \in OneStmt :
        \/ Prepare(s)
        \/ Query(s)
        \/ Exec(s)
        \/ Next(s)
        \/ stmtClose(s)
        \/ Columns(s)
        \/ rowsClose(s)
        \/ NumInput(s)

Spec == Init /\ [][Next_]_vars

\* ------------------------------------------------- codec specification
\* stmt.bindParam applied once to an argument drawn from ParamValues.
InitBind ==
    /\ wordSize \in {4, 8}
    /\ probe \in ParamValues(wordSize)
    /\ stmt = [s \in Stmts |-> NoStmt]
    /\ nat = [s \in Stmts |-> NoHandle]
    /\ nErr = 0
    /\ hist = [s \in Stmts |-> NoHist]
    /\ op = NoOp
    /\ calls = <<>>
    /\ conn = OpenConn
    /\ dest = [s \in Stmts |-> <<>>]
    /\ sched = NoSched

BindOne(s) ==
    /\ op.name = "none"
    /\ \E code \in FaultCodes, decl \in {"A_VAL32", "A_STRING"} :
       \E ans \in {[a EXCEPT !.decl = decl] : a \in BindAnswers(code)} :
          LET r == bindParam(s, 0, probe, ans, wordSize, nErr)
          IN  /\ op' = [NoOp EXCEPT !.name = "bindParam", !.st = s, !.err = r.err,
                                    !.nargs = 1, !.binderrs = <<r.err.kind>>]
              /\ calls' = r.calls
              /\ nErr' = r.code
    /\ UNCHANGED <<wordSize, stmt, nat, hist, probe, conn, dest, sched>>

NextBind == \E s \in OneStmt : BindOne(s)

SpecBind == InitBind /\ [][NextBind]_vars

\* ------------------------------------------- connection specification
\* drv.Open, conn.queryRow, conn.Begin, tx.Commit, tx.Rollback, conn.Close on
\* one connection.  Strings handed to the native library are sequences of
\* tokens; a call that carries one records it as text.
TextCall(fn, h, text) ==
    [fn |-> fn, h |-> h, idx |-> -1, bp |-> NoBP, text |-> text]

Utf8Option == ";cs=utf8"
OptionStrings == {<<>>, <<"uid=dba">>, <<"uid=dba", ";pwd=sql">>}
CharSetQuery == <<"select connection_property('CharSet')">>
BeginTran == <<"BEGIN TRAN">>

\* the handle of the statement executeDirect creates inside queryRow
QueryHandle == "q"

\* what dataValue.Value() yields for a fetched column
ColumnValues ==
    {[kind |-> "string", v |-> "utf-8"], [kind |-> "string", v |-> "windows-1252"],
     [kind |-> "uint64", v |-> "7"], [kind |-> "null", v |-> ""]}

\* the loop over the columns of queryRow from position i (0-based); dests: the
\* kinds of the destinations ("*string", "*uint64"); acc: [err, calls, out, code]
RECURSIVE readColumns(_, _, _, _)
readColumns(i, ans, dests, acc) ==
    IF i >= ans.numcols THEN acc
    ELSE
    LET get == Call("getColumn", QueryHandle, i, NoBP)
        lookup == Call("newError", Conn, -1, NoBP)
        val == ans.vals[i + 1]
    IN
    IF ans.failAt = i + 1
    THEN [acc EXCEPT !.err = newError(ans.code), !.calls = @ \o <<get, lookup>>,
                     !.code = ans.code]
    ELSE IF val.kind \notin {"string", "uint64"}
    THEN readColumns(i + 1, ans, dests, [acc EXCEPT !.calls = Append(@, get)])
    ELSE IF i >= Len(dests)
    THEN \* args[i]: index out of range
         [acc EXCEPT !.err = Panic, !.calls = Append(@, get)]
    ELSE IF dests[i + 1] = "*" \o val.kind
    THEN readColumns(i + 1, ans, dests,
                     [acc EXCEPT !.calls = Append(@, get), !.out[i + 1] = val.v])
    ELSE readColumns(i + 1, ans, dests, [acc EXCEPT !.calls = Append(@, get)])

\* ans: the native answers [execOk, fetchOk, fetchCode, numcols, failAt, vals,
\* code], fetchCode being the code a failing fetchNext leaves (the sentinel
\* when the result set is empty);
\* out0: the destinations' values before the call.
\* Result: [err, calls, out, code]
queryRow(query, dests, out0, ans, code0) ==
    LET direct == TextCall("executeDirect", Conn, query)
        free == Call("free", QueryHandle, -1, NoBP)
        fetch == Call("fetchNext", QueryHandle, -1, NoBP)
        count == Call("numCols", QueryHandle, -1, NoBP)
    IN
    IF ~ans.execOk
    THEN [err |-> newError(ans.code), calls |-> <<direct>>, out |-> out0, code |-> ans.code]
    ELSE IF ~ans.fetchOk
    THEN [err |-> EOF, calls |-> <<direct, fetch, free>>, out |-> out0,
          code |-> ans.fetchCode]
    ELSE LET r == readColumns(0, ans, dests,
                              [err |-> NilErr, calls |-> <<direct, fetch, count>>,
                               out |-> out0, code |-> code0])
         IN  [r EXCEPT !.calls = Append(@, free)]

\* the native answers to one queryRow
QueryAnswers(code) ==
    {[execOk |-> e, fetchOk |-> f, fetchCode |-> fc, numcols |-> Len(vs), failAt |-> k,
      vals |-> vs, code |-> code] :
        e \in BOOLEAN, f \in BOOLEAN, fc \in {code, SentinelCode},
        vs \in SeqsUpTo(ColumnValues, MaxCols), k \in 0..MaxCols}

InitConn ==
    /\ wordSize = 8
    /\ stmt = [s \in Stmts |-> NoStmt]
    /\ nat = [s \in Stmts |-> NoHandle]
    /\ nErr = 0
    /\ hist = [s \in Stmts |-> NoHist]
    /\ op = NoOp
    /\ calls = <<>>
    /\ probe = NilValue
    /\ conn = NoConn
    /\ dest = [s \in Stmts |-> <<>>]
    /\ sched = NoSched

\* "h.connect(opts + ";cs=utf8")"
connectOptions_AsGiven(opts) == opts

connectOptions(opts) == Append(opts, Utf8Option)

Open ==
    /\ conn.state = "none"
    /\ \E opts \in OptionStrings, connectOk \in BOOLEAN, code \in CallFaultCodes :
       \E ans \in QueryAnswers(code) :
         LET connect == TextCall("connect", Conn, connectOptions(opts))
             this == [NoOp EXCEPT !.name = "Open", !.ret = connectOk, !.opts = opts]
         IN
         IF ~connectOk
         THEN /\ op' = [this EXCEPT !.err = newError(code)]
              /\ calls' = <<connect>>
              /\ nErr' = code
              /\ conn' = conn
         ELSE \E r \in {queryRow(CharSetQuery, <<"*string">>, <<"">>, ans, nErr)} :
              /\ op' = [this EXCEPT !.err = r.err, !.out = r.out]
              /\ calls' = <<connect>> \o r.calls
              /\ nErr' = r.code
              /\ conn' = [OpenConn EXCEPT
                            !.charset = IF r.err = NilErr THEN r.out[1] ELSE "utf-8"]
    /\ UNCHANGED <<wordSize, stmt, nat, hist, probe, dest, sched>>

\* the native calls of conn.Close, disconnected being what disconnect answers
connCloseCalls_FreeIfDisconnected(disconnected) ==
    <<Call("disconnect", Conn, -1, NoBP)>>
    \o (IF disconnected THEN <<Call("free", Conn, -1, NoBP)>> ELSE <<>>)

connCloseCalls(disconnected) ==
    <<Call("disconnect", Conn, -1, NoBP), Call("free", Conn, -1, NoBP)>>

connClose ==
    /\ conn.state = "open"
    /\ conn.freed < MaxConnCloses
    /\ \E disconnected \in BOOLEAN, code \in CallFaultCodes :
         /\ op' = [NoOp EXCEPT !.name = "connClose", !.ret = disconnected,
                               !.fault = conn.freed > 0]
         /\ calls' = connCloseCalls(disconnected)
         /\ nErr' = IF disconnected THEN nErr ELSE code
         /\ conn' = [conn EXCEPT !.connected = FALSE,
                                 !.linked = @ /\ ~disconnected,
                                 !.freed = @ + Cardinality({i \in 1..Len(calls') :
                                                             calls'[i].fn = "free"})]
    /\ UNCHANGED <<wordSize, stmt, nat, hist, probe, dest, sched>>

Begin ==
    /\ conn.state = "open"
    /\ conn.txs < MaxTx
    /\ \E ok \in BOOLEAN, code \in CallFaultCodes :
         /\ op' = [NoOp EXCEPT !.name = "Begin", !.ret = ok,
                               !.err = IF ok THEN NilErr ELSE newError(code),
                               !.fault = conn.freed > 0]
         /\ calls' = <<TextCall("executeDirect", Conn, BeginTran)>>
         /\ nErr' = IF ok THEN nErr ELSE code
         /\ conn' = [conn EXCEPT !.txs = IF ok THEN @ + 1 ELSE @]
    /\ UNCHANGED <<wordSize, stmt, nat, hist, probe, dest, sched>>

\* the body shared by tx.Commit (fn "commit") and tx.Rollback (fn "rollback"):
\* "if ret := t.cn.cn.commit(); !ret { return t.cn.cn.newError() }; return nil"
txEnd_IgnoresFailure(fn, ret, code) ==
    [err |-> NilErr, calls |-> <<Call(fn, Conn, -1, NoBP)>>]

txEnd(fn, ret, code) ==
    IF ~ret
    THEN [err |-> newError(code),
          calls |-> <<Call(fn, Conn, -1, NoBP), Call("newError", Conn, -1, NoBP)>>]
    ELSE [err |-> NilErr, calls |-> <<Call(fn, Conn, -1, NoBP)>>]

EndTx(name, fn) ==
    /\ conn.txs > 0
    /\ \E ret \in BOOLEAN, code \in CallFaultCodes :
       \E r \in {txEnd(fn, ret, code)} :
         /\ op' = [NoOp EXCEPT !.name = name, !.ret = ret, !.err = r.err,
                               !.fault = conn.freed > 0]
         /\ calls' = r.calls
         /\ nErr' = IF ret THEN nErr ELSE code
    /\ UNCHANGED <<wordSize, stmt, nat, hist, probe, conn, dest, sched>>

Commit == EndTx("Commit", "commit")

Rollback == EndTx("Rollback", "rollback")

NextConn ==
    \/ Open
    \/ connClose
    \/ Begin
    \/ Commit
    \/ Rollback
    \/ Prepare("s1")

SpecConn == InitConn /\ [][NextConn]_vars

\* ------------------------------------------------- row specification
\* One statement whose rows are followed column by column: Prepare, one Query
\* without arguments, and Next over its result of up to MaxFetches rows whose
\* columns hold an integer or NULL ("SELECT 9 UNION SELECT NULL").
MaxFetches == 2

NoArgs == {[isnil |-> TRUE, list |-> <<>>]}

RowColumns == {[kind |-> "uint64", v |-> "9"], NullColumn}

RowsOf(n) == [1..n -> RowColumns]

QueryRows(s) == RunWith(s, "Query", NoArgs, MaxFetches, 1)

NextRow(s) == rowsNext(s, RowsOf(nat[s].numCols), MaxFetches + 1)

NextRows ==
    \E s \in OneStmt :
        \/ Prepare(s)
        \/ QueryRows(s)
        \/ NextRow(s)

SpecRows == Init /\ [][NextRows]_vars

\* ------------------------------------------- two-statement specification
\* Two statements prepared on the one connection, s2 after s1, their
\* operations taken one at a time (each action is one whole call): one Query
\* with no or one argument, Next and Close on either.  The rows of the result
\* of s hold the name of s in every column.
TwoShapes == {[np |-> 0, nc |-> 2], [np |-> 1, nc |-> 1]}

InitTwo ==
    /\ wordSize = 8
    /\ \E shape \in [Stmts -> TwoShapes] :
         /\ stmt = [s \in Stmts |-> preparedStmt(shape[s].np, shape[s].nc)]
         /\ nat = [s \in Stmts |-> preparedHandle(shape[s].np, shape[s].nc)]
         /\ calls = prepareCalls("s2", shape["s2"].nc)
    /\ nErr = 0
    /\ hist = [s \in Stmts |-> NoHist]
    /\ op = [NoOp EXCEPT !.name = "Prepare", !.st = "s2"]
    /\ probe = NilValue
    /\ conn = OpenConn
    /\ dest = [s \in Stmts |-> <<>>]
    /\ sched = NoSched

TwoLists == NoArgs \cup {[isnil |-> FALSE, list |-> <<Val("int64", LE_1)>>]}

OwnRows(s, n) == {[i \in 1..n |-> [kind |-> "string", v |-> s]]}

QueryTwo(s) == RunWith(s, "Query", TwoLists, MaxRows, 1)

NextTwo(s) == rowsNext(s, OwnRows(rowsStmt(s), nat[rowsStmt(s)].numCols), MaxRows + 1)

NextOfTwo ==
    \E s \in Stmts :
        \/ QueryTwo(s)
        \/ NextTwo(s)
        \/ stmtClose(s)

SpecTwo == InitTwo /\ [][NextOfTwo]_vars

\* --------------------------------------------- concurrent specification
\* Two callers, one per statement, on the one connection; the layer takes no
\* lock, so a step of one caller is one native call (or a run of them) and
\* the steps of the two interleave.  rows.Next is followed in its steps: the
\* fetchNext, then either the newError lookup of a failed fetch or the column
\* reads.  sched.serial: the callers serialize their operations per
\* connection, so no caller starts or continues while the other is inside an
\* operation.
\* Both statements are prepared, s2 after s1, each without parameters and
\* with one column.
InitConc ==
    /\ wordSize = 8
    /\ stmt = [s \in Stmts |-> preparedStmt(0, 1)]
    /\ nat = [s \in Stmts |-> preparedHandle(0, 1)]
    /\ calls = prepareCalls("s2", 1)
    /\ nErr = 0
    /\ hist = [s \in Stmts |-> NoHist]
    /\ op = [NoOp EXCEPT !.name = "Prepare", !.st = "s2"]
    /\ probe = NilValue
    /\ conn = OpenConn
    /\ dest = [s \in Stmts |-> <<>>]
    /\ \E b \in BOOLEAN : sched = [NoSched EXCEPT !.serial = b]

\* the caller of s may take a step
MayStep(s) ==
    sched.serial => \A t \in Stmts \ {s} : sched.at[t] = "idle"

QueryConc(s) ==
    /\ MayStep(s)
    /\ sched.at[s] = "idle"
    /\ RunWith(s, "Query", NoArgs, MaxRows, 1)

\* "if ok := rs.st.st.fetchNext(); !ok {"
NextFetch(s) ==
    /\ MayStep(s)
    /\ sched.at[s] = "idle"
    /\ hist[s].hasRows
    /\ hist[s].nexts < MaxRows + 1
    /\ \E fault \in BOOLEAN, code \in FaultCodes \cup {SentinelCode} :
         LET f == FetchAnswer(nat[rowsStmt(s)], fault, code)
         IN  /\ calls' = <<Call("fetchNext", rowsStmt(s), -1, NoBP)>>
             /\ IF f.ok
                THEN /\ nat' = [nat EXCEPT ![rowsStmt(s)].pos = @ + 1]
                     /\ sched' = [sched EXCEPT !.at[s] = "columns"]
                     /\ UNCHANGED <<nErr, hist>>
                ELSE /\ nErr' = f.code
                     /\ sched' = [sched EXCEPT !.at[s] = "lookup",
                                                !.produced[s] = f.code]
                     /\ hist' = [hist EXCEPT ![s].clean = @ /\ f.clean]
                     /\ nat' = nat
    /\ UNCHANGED <<wordSize, stmt, op, probe, conn, dest>>

\* "if err = rs.st.cn.cn.newError(); err != nil { ... } return io.EOF"
NextLookup(s) ==
    /\ MayStep(s)
    /\ sched.at[s] = "lookup"
    /\ op' = [NoOp EXCEPT !.name = "Next", !.st = s, !.before = dest[s],
                          !.err = nextFetchError(nErr),
                          !.fault = ~hist[s].clean]
    /\ calls' = <<Call("newError", Conn, -1, NoBP)>>
    /\ hist' = [hist EXCEPT ![s].nexts = @ + 1]
    /\ sched' = [sched EXCEPT !.at[s] = "idle"]
    /\ UNCHANGED <<wordSize, stmt, nat, nErr, probe, conn, dest>>

\* the numCols call and the loop over the columns of the fetched row
NextColumns(s) ==
    /\ MayStep(s)
    /\ sched.at[s] = "columns"
    /\ \E code \in FaultCodes \cup {SentinelCode},
          failAt \in 0..nat[rowsStmt(s)].numCols,
          vals \in OwnRows(rowsStmt(s), nat[rowsStmt(s)].numCols) :
         LET t == rowsStmt(s)
             this == [NoOp EXCEPT !.name = "Next", !.st = s, !.before = dest[s],
                                  !.row = nat[t].pos, !.fetched = vals]
         IN  IF failAt > 0
             THEN /\ op' = [this EXCEPT !.err = newError(code), !.fault = TRUE]
                  /\ calls' = <<Call("numCols", t, -1, NoBP)>>
                              \o ColumnCalls(t, 0, failAt)
                              \o <<Call("newError", Conn, -1, NoBP)>>
                  /\ nErr' = code
                  /\ dest' = [dest EXCEPT ![s] = readRow(0, failAt - 1, vals, @)]
                  /\ hist' = [hist EXCEPT ![s].nexts = @ + 1, ![s].clean = FALSE]
             ELSE /\ op' = this
                  /\ calls' = <<Call("numCols", t, -1, NoBP)>>
                              \o ColumnCalls(t, 0, nat[t].numCols)
                  /\ nErr' = nErr
                  /\ dest' = [dest EXCEPT ![s] = readRow(0, nat[t].numCols, vals, @)]
                  /\ hist' = [hist EXCEPT ![s].nexts = @ + 1]
    /\ sched' = [sched EXCEPT !.at[s] = "idle"]
    /\ UNCHANGED <<wordSize, stmt, nat, probe, conn>>

NextConc ==
    \E s \in Stmts :
        \/ QueryConc(s)
        \/ NextFetch(s)
        \/ NextLookup(s)
        \/ NextColumns(s)

SpecConc == InitConc /\ [][NextConc]_vars

\* ------------------------------------------------------------- properties
Made(fn) == {i \in 1..Len(calls) : calls[i].fn = fn}

IsExecute == op.name \in {"Exec", "Query"}

\* the last bindParam stopped at a failing describeBindParam
DescribeFailed == Len(calls) = 2 /\ calls[2].fn = "newError"

\* C1: an execute (through Exec or Query) with a non-nil argument list whose
\* length differs from the statement's numparams returns the argument-count
\* error and makes no native describeBindParam, bindParam or execute call.
C1_ArgCount ==
    (IsExecute /\ op.nargs # -1 /\ op.nargs # stmt[op.st].numparams)
        => /\ op.err = ArgCountErr
           /\ Made("describeBindParam") = {}
           /\ Made("bindParam") = {}
           /\ Made("execute") = {}

C1_Witness ==
    /\ op.name = "Query"
    /\ op.nargs = 2
    /\ stmt[op.st].numparams = 1
    /\ op.err = ArgCountErr

\* C2 (as claimed): when the bind of some argument fails during execute, execute
\* returns that failure, binds no later argument and does not call the native
\* execute.
C2_BindFailureAborts ==
    IsExecute =>
        \A i \in 1..Len(op.binderrs) :
            op.binderrs[i] # "nil"
                => /\ op.err.kind = op.binderrs[i]
                   /\ Len(op.binderrs) = i
                   /\ Made("execute") = {}

\* C3: when fetchNext returns false inside Next, Next returns io.EOF if the
\* connection's error code is the sentinel 100, and for every other error code
\* the classified error carrying that code (a connection holding no error code,
\* 0, classifies to nil and is not an error code).
C3_Sentinel ==
    (op.name = "Next" /\ Made("fetchNext") # {} /\ Made("numCols") = {})
        => /\ nErr = SentinelCode => op.err = EOF
           /\ (nErr # SentinelCode /\ nErr # 0) => op.err = SqlaError(nErr)

C3_Witness ==
    /\ op.name = "Next"
    /\ Made("numCols") = {}
    /\ nErr = -85
    /\ op.err = SqlaError(-85)

\* C4: for a result set of N rows and no native fault since the execute that
\* produced it, the k-th Next succeeds for k <= N and the (N+1)-th returns
\* io.EOF.
C4_FetchLoop ==
    (op.name = "Next" /\ hist[op.st].clean)
        => LET N == nat[op.st].rows
               k == hist[op.st].nexts
           IN  /\ k <= N => op.err = NilErr /\ op.row = k
               /\ k = N + 1 => op.err = EOF

C4_Witness ==
    /\ op.name = "Next"
    /\ hist[op.st].clean
    /\ nat[op.st].rows = 1
    /\ hist[op.st].nexts = 2
    /\ op.err = EOF

\* C5: over any sequence of Close calls on one statement the native free of its
\* handle is made exactly once: by the first Close, which sets closed; every
\* later Close (one that finds the handle freed) returns nil and makes no
\* native call.
C5_CloseOnce ==
    \A s \in Stmts :
        /\ nat[s].freed <= 1
        /\ stmt[s].closed <=> nat[s].freed = 1
        /\ (op.name = "Close" /\ op.st = s)
               => /\ stmt[s].closed
                  /\ op.fault => calls = <<>> /\ op.err = NilErr
                  /\ ~op.fault => Cardinality(Made("free")) = 1

C5_Witness ==
    /\ op.name = "Close"
    /\ op.fault
    /\ calls = <<>>
    /\ nat[op.st].freed = 1

\* C6: when a statement with columns is executed again, the native reset of
\* its handle precedes every bind call and the native execute of that call,
\* and the first Next after it returns row 1 of the new result set.
C6_ResetBeforeReexecute ==
    /\ (IsExecute /\ nat[op.st].numCols > 0 /\ hist[op.st].execs >= 2)
           => \E r \in Made("reset") :
                 /\ calls[r].h = op.st
                 /\ \A j \in Made("describeBindParam") \cup Made("bindParam")
                                \cup Made("execute") : r < j
    /\ (op.name = "Next" /\ hist[op.st].execs >= 2 /\ hist[op.st].clean
            /\ hist[op.st].nexts = 1 /\ op.err = NilErr)
           => op.row = 1

C6_Witness ==
    /\ op.name = "Next"
    /\ hist[op.st].execs = 2
    /\ hist[op.st].clean
    /\ hist[op.st].nexts = 1
    /\ op.err = NilErr
    /\ op.row = 1

\* ---- the codec specification
SupportedKinds ==
    {"bool", "int8", "int16", "int32", "int64", "int", "float32", "float64",
     "string", "bytes", "nil"}

Bound == op.name = "bindParam" /\ ~DescribeFailed

\* C7 (as claimed): for an argument of any other kind bindParam returns the
\* unsupported-type error and the native bindParam is not called.
C7_UnsupportedRejected ==
    (Bound /\ probe.kind \notin SupportedKinds)
        => op.err = ErrNotSupported /\ Made("bindParam") = {}

\* C8 (as claimed): binding nil completes without fault and hands the native
\* bindParam a parameter with isnull set and an initialized buffer and size.
C8_NilBound ==
    (Bound /\ probe.kind = "nil")
        => /\ op.err # Panic
           /\ \E i \in Made("bindParam") :
                 /\ calls[i].bp.isnull
                 /\ calls[i].bp.buffer # NilBuf
                 /\ calls[i].bp.buffersize >= 0

\* C9 (as claimed): binding a []byte of any length L >= 0 completes without
\* fault with a parameter tagged binary whose buffersize and length are L.
C9_BytesBound ==
    (Bound /\ probe.kind = "bytes")
        => /\ op.err # Panic
           /\ \E i \in Made("bindParam") :
                 /\ calls[i].bp.datatype = "A_BINARY"
                 /\ calls[i].bp.buffersize = Len(probe.v)
                 /\ calls[i].bp.length = Len(probe.v)

SignedKinds == {"int8", "int16", "int32", "int64", "int"}

SignedTag(bytes) ==
    CASE bytes = 1 -> "A_VAL8"
      [] bytes = 2 -> "A_VAL16"
      [] bytes = 4 -> "A_VAL32"
      [] bytes = 8 -> "A_VAL64"

\* the int64 a little-endian two's complement buffer stands for, as 8 bytes
SignExtend(buf) ==
    LET fill == IF buf[Len(buf)] >= 128 THEN 255 ELSE 0
    IN  buf \o [i \in 1..(8 - Len(buf)) |-> fill]

\* C11 (as claimed): binding a signed integer of source width w (int8, int16,
\* int32, int64, and int with the width of the build) hands the native
\* bindParam a parameter tagged with the signed native type of exactly w bits
\* whose buffer holds the source value unchanged.
C11_SignedWidth ==
    (Bound /\ probe.kind \in SignedKinds)
        => /\ Made("bindParam") # {}
           /\ \A i \in Made("bindParam") :
                 /\ calls[i].bp.datatype = SignedTag(TypeSize(probe.kind, wordSize))
                 /\ Len(calls[i].bp.buffer) = TypeSize(probe.kind, wordSize)
                 /\ SignExtend(calls[i].bp.buffer) = probe.v

\* ---- the lifecycle and connection specifications, continued
\* the functions called, in order
Fns == [i \in 1..Len(calls) |-> calls[i].fn]

\* C12: Prepare calls getColumnInfo only after numCols() and only for the
\* positions 0..numCols-1, once each in increasing order; when one of them
\* fails Prepare stops there, returns the classified error of the connection
\* and hands out no statement; otherwise the statement's cols are the numCols
\* names in position order and its numparams is numParams().
C12_PrepareColumns ==
    (op.name = "Prepare" /\ Made("numCols") # {})
        => LET infos == Made("getColumnInfo")
               s == op.st
           IN  /\ \A i \in infos :
                     /\ calls[i].h = s
                     /\ calls[i].idx = Cardinality({j \in infos : j < i})
                     /\ \E c \in Made("numCols") : c < i
               /\ op.err = NilErr
                     => /\ stmt[s].state = "prepared"
                        /\ Cardinality(infos) = nat[s].numCols
                        /\ stmt[s].cols = [i \in 1..nat[s].numCols |-> ColName(i - 1)]
                        /\ stmt[s].numparams = nat[s].numParams
               /\ op.err # NilErr
                     => /\ stmt[s].state = "none"
                        /\ op.err = SqlaError(nErr)
                        /\ infos # {}
                        /\ Fns[Len(calls)] = "newError"
                        /\ Fns[Len(calls) - 1] = "getColumnInfo"

C12_Witness ==
    /\ op.name = "Prepare"
    /\ op.err = NilErr
    /\ stmt[op.st].cols = <<ColName(0), ColName(1)>>
    /\ stmt[op.st].numparams = 2
    /\ Cardinality(Made("getColumnInfo")) = 2

\* C13: once a statement is prepared no step changes its cols or numparams or
\* calls getColumnInfo, and every rows.Columns returns the cols as cached.
C13_ColumnsCached ==
    [][\A s \in Stmts :
          stmt[s].state = "prepared"
              => /\ stmt'[s].cols = stmt[s].cols
                 /\ stmt'[s].numparams = stmt[s].numparams
                 /\ \A i \in 1..Len(calls') : calls'[i].fn # "getColumnInfo"
                 /\ (op'.name = "Columns" /\ op'.st = s) => op'.cols = stmt[s].cols]_vars

C13_Witness ==
    /\ op.name = "Columns"
    /\ op.cols = <<ColName(0), ColName(1)>>
    /\ hist[op.st].execs = 2
    /\ nat[op.st].pos = 1

\* C14: conn.Close calls the native disconnect and then the native free, sets
\* connected to false and returns nil, whatever disconnect answers.
C14_ConnClose ==
    op.name = "connClose"
        => /\ Fns = <<"disconnect", "free">>
           /\ \A i \in 1..Len(calls) : calls[i].h = Conn
           /\ ~conn.connected
           /\ op.err = NilErr

C14_Witness ==
    /\ op.name = "connClose"
    /\ ~op.ret
    /\ Fns = <<"disconnect", "free">>
    /\ conn.freed = 1

\* C15: drv.Open calls the native connect first and once, with the caller's
\* options followed by the utf-8 option; when connect fails it returns the
\* classified error, no conn and makes no other call; when connect succeeds it
\* runs queryRow once, for the character set, and when that returns nil the
\* conn's charset is what it stored.
C15_Open ==
    op.name = "Open"
        => /\ Made("connect") = {1}
           /\ calls[1].text = Append(op.opts, Utf8Option)
           /\ ~op.ret => /\ op.err = SqlaError(nErr)
                         /\ conn.state = "none"
                         /\ Len(calls) = 1
           /\ op.ret => /\ Made("executeDirect") = {2}
                        /\ calls[2].text = CharSetQuery
                        /\ op.err = NilErr => /\ conn.state = "open"
                                              /\ conn.charset = op.out[1]

C15_Witness ==
    /\ op.name = "Open"
    /\ op.opts = <<"uid=dba">>
    /\ op.err = NilErr
    /\ conn.charset = "windows-1252"

\* C16: stmt.Close of a statement not yet closed calls the native reset of its
\* handle before the native free when the statement has columns, and frees
\* the handle without a reset when it has none.
C16_CloseResets ==
    (op.name = "Close" /\ ~op.fault)
        => /\ \E f \in Made("free") : calls[f].h = op.st
           /\ nat[op.st].numCols > 0
                 => \E r \in Made("reset") :
                       /\ calls[r].h = op.st
                       /\ \A f \in Made("free") : r < f
           /\ nat[op.st].numCols = 0 => Made("reset") = {}

C16_Witness ==
    /\ op.name = "Close"
    /\ ~op.fault
    /\ nat[op.st].numCols = 2
    /\ Fns = <<"numCols", "reset", "free">>

\* C17 (as claimed): an execute that returns the argument-count error has made
\* no native call, neither on the statement handle nor on the connection.
C17_ArgCountNoNativeCall ==
    (IsExecute /\ op.err = ArgCountErr) => calls = <<>>

\* C18: Commit and Rollback call their native primitive exactly once and
\* return the classified error of the connection exactly when it answers
\* false; Begin makes one native executeDirect of BEGIN TRAN, returns its
\* failure when it fails and nil otherwise, however many transactions were
\* begun before.
C18_Transactions ==
    /\ \A e \in {<<"Commit", "commit">>, <<"Rollback", "rollback">>} :
          op.name = e[1]
              => /\ Cardinality(Made(e[2])) = 1
                 /\ Made("commit") \cup Made("rollback") = Made(e[2])
                 /\ op.err # NilErr <=> ~op.ret
                 /\ ~op.ret => op.err = SqlaError(nErr)
    /\ op.name = "Begin"
          => /\ Len(calls) = 1
             /\ calls[1].fn = "executeDirect"
             /\ calls[1].text = BeginTran
             /\ ~op.ret => op.err = SqlaError(nErr)
             /\ op.ret => op.err = NilErr

C18_Witness ==
    /\ op.name = "Commit"
    /\ ~op.ret
    /\ op.err = SqlaError(-85)
    /\ conn.txs = 2

\* an execute whose argument count fits, whose binds all returned nil and
\* which looked up no native error
ExecuteUnhindered ==
    /\ IsExecute
    /\ op.nargs \in {-1, stmt[op.st].numparams}
    /\ \A i \in 1..Len(op.binderrs) : op.binderrs[i] = "nil"
    /\ Made("newError") = {}

\* C19: rows.Close returns nil, makes no native call and leaves the statement
\* and its handle as they were (not closed, not freed); an execute that
\* follows it on the open statement succeeds when its native calls do.
C19_RowsCloseKeepsStmt ==
    [][/\ op'.name = "rowsClose"
          => /\ op'.err = NilErr
             /\ calls' = <<>>
             /\ stmt' = stmt
             /\ nat' = nat
       /\ (op.name = "rowsClose" /\ ~stmt[op.st].closed /\ ExecuteUnhindered')
          => op'.err = NilErr /\ ~stmt'[op.st].closed]_vars

C19_Witness ==
    /\ op.name = "rowsClose"
    /\ ~stmt[op.st].closed
    /\ nat[op.st].freed = 0
    /\ hist[op.st].execs = 2

\* C20: an execute that fails leaves the statement's closed, numparams and
\* cols and the connection as they were, and an execute after a failed one
\* succeeds when its arguments fit and its native calls succeed.
C20_FailedExecuteKeepsState ==
    [][/\ (IsExecute' /\ op'.err # NilErr)
          => /\ stmt' = stmt
             /\ conn' = conn
             /\ conn'.connected
       /\ (hist[op'.st].failed /\ ExecuteUnhindered')
          => op'.err = NilErr]_vars

C20_Witness ==
    /\ IsExecute
    /\ op.err = NilErr
    /\ hist[op.st].failed
    /\ ~stmt[op.st].closed
    /\ conn.connected

\* ---- the codec specification, continued
FixedWidthKinds == SignedKinds \cup {"bool", "float32", "float64"}

\* bytes of the native type a tag names
TagWidth(tag) ==
    CASE tag \in {"A_UVAL8", "A_VAL8"} -> 1
      [] tag = "A_VAL16" -> 2
      [] tag = "A_VAL32" -> 4
      [] tag \in {"A_VAL64", "A_DOUBLE"} -> 8

\* C29 (as claimed): for a bool, a signed integer of any width or a float the
\* parameter handed to the native bindParam has buffersize and length equal
\* to the byte width of the native type its tag names, which is also the
\* number of bytes in its buffer.
C29_FixedWidthSizes ==
    (Bound /\ probe.kind \in FixedWidthKinds)
        => /\ Made("bindParam") # {}
           /\ \A i \in Made("bindParam") :
                 LET bp == calls[i].bp
                 IN  /\ bp.datatype \in NativeTypes \ {"A_STRING", "A_BINARY"}
                     /\ bp.buffersize = TagWidth(bp.datatype)
                     /\ bp.length = TagWidth(bp.datatype)
                     /\ Len(bp.buffer) = TagWidth(bp.datatype)

\* ---- the connection specification, continued
\* the queryRow inside the last drv.Open got as far as its fetchNext, which
\* answered false
QueryFetchFailed ==
    op.name = "Open" /\ Made("fetchNext") # {} /\ Made("numCols") = {}

\* C24 (as claimed): queryRow returns the classified error of the connection
\* when executeDirect fails, when a getColumn fails and when fetchNext fails
\* with a code other than the sentinel, and makes no native call twice.
C24_QueryRowSurfacesFailures ==
    (op.name = "Open" /\ op.ret)
        => /\ Made("fetchNext") = {} => op.err = SqlaError(nErr)
           /\ (Made("getColumn") # {} /\ Made("newError") # {}) => op.err = SqlaError(nErr)
           /\ (QueryFetchFailed /\ nErr # SentinelCode) => op.err = SqlaError(nErr)
           /\ \A i, j \in 1..Len(calls) :
                 (calls[i].fn = calls[j].fn /\ calls[i].idx = calls[j].idx) => i = j

\* C26 (as claimed): an operation called after conn.Close has freed the
\* native connection handle makes no native call on that handle, and the
\* handle is freed at most once.
C26_NoCallAfterConnClose ==
    /\ conn.freed <= 1
    /\ (op.name \in {"connClose", "Begin", "Commit", "Rollback"} /\ op.fault)
          => \A i \in 1..Len(calls) : calls[i].h # Conn

\* C27 (as claimed): when an operation returns, the statement handle it
\* obtained from prepare or executeDirect is owned by a stmt handed to the
\* caller or has been freed; so a Prepare that fails at a getColumnInfo, a
\* Begin that succeeds and every queryRow free the handle.
C27_HandlesOwnedOrFreed ==
    LET freedStmtHandle == \E i \in Made("free") : calls[i].h # Conn
    IN  /\ (op.name = "Prepare" /\ Made("numParams") # {} /\ op.err # NilErr)
              => freedStmtHandle
        /\ (op.name = "Begin" /\ op.ret) => freedStmtHandle
        /\ (op.name = "Open" /\ Made("fetchNext") # {}) => freedStmtHandle

\* C28 (as claimed): when drv.Open returns an error it returns no conn, and
\* the native connection handle has been freed, after a disconnect when
\* connect had succeeded.
C28_OpenErrorReleases ==
    (op.name = "Open" /\ op.err.kind \in {"sqlaError", "EOF"})
        => /\ conn.state = "none"
           /\ \E f \in Made("free") :
                 /\ calls[f].h = Conn
                 /\ op.ret => \E d \in Made("disconnect") : d < f

\* ---- the lifecycle specification, continued
\* the last operation was called on a statement whose handle Close had freed
CalledAfterFree ==
    \/ op.name \in {"Exec", "Query", "NumInput", "Close"} /\ op.fault
    \/ op.name = "Next" /\ nat[op.st].freed > 0

\* C25 (as claimed): an operation called after Close has freed the statement's
\* handle (Exec, Query, NumInput, another Close, Next of rows obtained
\* earlier) makes no native call on that handle.
C25_NoCallAfterStmtClose ==
    CalledAfterFree => \A i \in 1..Len(calls) : calls[i].h # op.st

\* C21: each successful Next (fetchNext and every getColumn succeeded, nil
\* returned) assigns to every destination slot the value decoded from that
\* column of the row just fetched; a column that is NULL in the current row
\* yields nil in its slot whatever the slot held before.
C21_NextAssignsEverySlot ==
    (op.name = "Next" /\ op.err = NilErr /\ ~op.fault)
        => /\ Len(dest[op.st]) = nat[op.st].numCols
           /\ Len(op.fetched) = nat[op.st].numCols
           /\ \A i \in 1..nat[op.st].numCols :
                 /\ dest[op.st][i] = Value(op.fetched[i])
                 /\ op.fetched[i] = NullColumn => dest[op.st][i] = DriverNil

\* the second row's NULL replaced the first row's integer
C21_Witness ==
    /\ op.name = "Next"
    /\ op.err = NilErr
    /\ ~op.fault
    /\ op.row = 2
    /\ nat[op.st].numCols >= 1
    /\ op.before[1] = [kind |-> "uint64", v |-> "9"]
    /\ op.fetched[1] = NullColumn
    /\ dest[op.st][1] = DriverNil

\* C22: with two statements on one connection and their operations taken one
\* at a time, Query, Next and Close on one statement make their native
\* statement calls on that statement's handle only, leave the other
\* statement's cols, numparams, closed and native handle as they were, and a
\* Next that succeeds yields the next row of the statement's own result set.
StmtCalls == {"reset", "describeBindParam", "bindParam", "execute", "fetchNext",
              "getColumn", "free", "numCols", "numParams", "affectedRows"}

C22_StatementsIndependent ==
    [][ /\ \A i \in 1..Len(calls') :
              calls'[i].fn \in StmtCalls => calls'[i].h = op'.st
        /\ \A t \in Stmts \ {op'.st} :
              /\ stmt'[t] = stmt[t]
              /\ nat'[t] = nat[t]
              /\ dest'[t] = dest[t]
        /\ (op'.name = "Next" /\ op'.err = NilErr /\ ~op'.fault)
              => /\ op'.row = nat[op'.st].pos + 1
                 /\ \A i \in 1..Len(dest'[op'.st]) :
                       dest'[op'.st][i] = [kind |-> "string", v |-> op'.st]
      ]_vars

\* a row of s2 is fetched while s1 has an open result at another position,
\* and s1 was the statement of the operation before
C22_Witness ==
    /\ op.name = "Next"
    /\ op.st = "s2"
    /\ op.err = NilErr
    /\ ~op.fault
    /\ op.row = 1
    /\ Len(dest["s2"]) >= 1
    /\ nat["s1"].open
    /\ nat["s1"].pos = 0
    /\ nat["s1"].rows = 1
    /\ stmt["s1"].numparams # stmt["s2"].numparams
    /\ Len(stmt["s1"].cols) # Len(stmt["s2"].cols)

\* C23: the layer takes no lock.  When the callers serialize their operations
\* per connection, every Next whose fetchNext failed is classified with the
\* code that fetch left: it returns the error of that code, or io.EOF when
\* the code is none or the sentinel.  (Without serialization a state is
\* reachable in which it is classified with a code another caller's native
\* call left in between: C23_Witness.)
FetchFailedNext ==
    /\ op.name = "Next"
    /\ op.row = 0
    /\ sched.at[op.st] = "idle"

OwnClassification(code) ==
    IF code \in {0, SentinelCode} THEN EOF ELSE SqlaError(code)

C23_SerializedClassification ==
    (sched.serial /\ FetchFailedNext)
        => op.err = OwnClassification(sched.produced[op.st])

\* unserialized: the fetch of s1 failed with a fault code, another caller's
\* fetch ran into the end of its result before the newError lookup of s1,
\* and Next on s1 returned io.EOF
C23_Witness ==
    /\ ~sched.serial
    /\ FetchFailedNext
    /\ op.st = "s1"
    /\ sched.produced["s1"] = -85
    /\ nErr = SentinelCode
    /\ op.err = EOF
    /\ op.err # OwnClassification(sched.produced["s1"])

====
